---- MODULE Spec2Model ----
(***************************************************************************)
(* Model of src/src/process_dialog.rs: the per-process dialog of the       *)
(* process viewer.  create_process_dialog builds four live labels and two  *)
(* history graphs (memory, CPU); ProcDialog::update refreshes the labels,  *)
(* recomputes the running time and pushes one sample into each graph.      *)
(*                                                                         *)
(* Representation                                                          *)
(*  - u64 values are naturals below Modulus = 2^WordBits; the arithmetic   *)
(*    of compute_running_since and the shift of line 33 are done modulo    *)
(*    Modulus (the width is scaled down, the wrap-around is kept).         *)
(*  - a build either traps integer overflow (overflow_checks, the debug    *)
(*    profile: the operation panics) or wraps (the release profile).       *)
(*  - f64 samples are represented by the number they denote; CPU           *)
(*    magnitudes are kept in half-percent units (37.5% is 75, 100% is 200).*)
(*  - a String is a sequence of [n, u] tokens (a number and the text that  *)
(*    follows it).                                                         *)
(*  - total_memory and the value handed to a label callback are written    *)
(*    hi * 100000 + lo as [hi, lo], lo < 100000, so that the thresholds    *)
(*    10^5, 10^7 and 10^10 of the memory label callback are exact.         *)
(*  - RotateVec and Graph are defined in utils.rs and graph.rs; here they  *)
(*    follow the specification's RingSeries and MetricHistory, as does the *)
(*    renderer that draws the axis texts and acknowledges a redraw.        *)
(*  - crs, upd and recorded are history variables: the last call of        *)
(*    compute_running_since, the last completed update, the samples        *)
(*    written so far.                                                      *)
(***************************************************************************)
EXTENDS Integers, Sequences, FiniteSets, TLC

VARIABLES
    overflow_checks,        \* build profile: TRUE = overflow panics, FALSE = wraps
    pc,                     \* "start" | "open" | "sampled" | "aborted"
    ticks,                  \* timer ticks delivered so far
    process,                \* the sysinfo::Process snapshot
    total_memory,           \* argument of create_process_dialog
    caller_start_time,      \* the session owner's start_time
    caller_running_since,   \* the session owner's running_since
    popup,                  \* "none" | "shown"
    working_directory,      \* label texts of ProcDialog
    memory_usage,
    cpu_usage,
    run_time,
    ram_usage_history,      \* Graph
    cpu_usage_history,      \* Graph
    axis,                   \* axis texts last drawn by the renderer
    crs,                    \* history: last call of compute_running_since
    upd,                    \* history: last completed update
    recorded                \* history: samples written by update, in order

vars == <<overflow_checks, pc, ticks, process, total_memory, caller_start_time,
          caller_running_since, popup, working_directory, memory_usage,
          cpu_usage, run_time, ram_usage_history, cpu_usage_history, axis,
          crs, upd, recorded>>

-----------------------------------------------------------------------------
(* Bounds and program constants *)

WordBits == 28

MaxTicks == 3

MaxLongTicks == 63

HistoryLen == 61

F64MantissaBits == 53

Modulus == 2^WordBits

TimeValues == {0, 50, 400, 1000, Modulus - 1}

Steps == {0, 50}

Snapshots ==
    { [memory |-> 0,        cpu_usage |-> 0,   cwd |-> "/"],
      [memory |-> 16777217, cpu_usage |-> 75,  cwd |-> "/tmp"],
      [memory |-> 1024,     cpu_usage |-> 200, cwd |-> "/"] }

ToBig(h, l) == [hi |-> h, lo |-> l]

BigZero == ToBig(0, 0)

DefaultTotalMemory == ToBig(167, 77216)

LabelValues ==
    { ToBig(0, 0), ToBig(0, 99999), ToBig(1, 0), ToBig(1, 1),
      ToBig(99, 99999), ToBig(100, 0), ToBig(100, 1),
      ToBig(99999, 99999), ToBig(100000, 0), ToBig(100000, 1) }

-----------------------------------------------------------------------------
(* u64 arithmetic *)

Ok(v) == [panic |-> FALSE, value |-> v]

Panic == [panic |-> TRUE, value |-> 0]

U64Sub(a, b) ==
    IF a >= b THEN Ok(a - b)
    ELSE IF overflow_checks THEN Panic ELSE Ok(a - b + Modulus)

U64Add(a, b) ==
    IF a + b < Modulus THEN Ok(a + b)
    ELSE IF overflow_checks THEN Panic ELSE Ok(a + b - Modulus)

\* process.memory() << 10: the bits shifted out are lost, nothing panics
Shl10(a) == (a % (Modulus \div 1024)) * 1024

(* a plausible slip: the first branch drops the accumulated duration *)
compute_running_since_dropacc(p, start_time, running_since) ==
    IF start_time > p.start_time
    THEN U64Sub(start_time, p.start_time)
    ELSE LET s == U64Add(start_time, running_since)
         IN  IF s.panic THEN Panic ELSE U64Sub(s.value, p.start_time)

(* a plausible change: the else branch takes the absolute difference *)
compute_running_since_absdiff(p, start_time, running_since) ==
    IF start_time > p.start_time
    THEN LET d == U64Sub(start_time, p.start_time)
         IN  IF d.panic THEN Panic ELSE U64Add(d.value, running_since)
    ELSE LET s == U64Add(start_time, running_since)
         IN  IF s.panic THEN Panic
             ELSE IF s.value >= p.start_time
                  THEN Ok(s.value - p.start_time)
                  ELSE Ok(p.start_time - s.value)

compute_running_since(p, start_time, running_since) ==
    IF start_time > p.start_time
    THEN LET d == U64Sub(start_time, p.start_time)
         IN  IF d.panic THEN Panic ELSE U64Add(d.value, running_since)
    ELSE LET s == U64Add(start_time, running_since)
         IN  IF s.panic THEN Panic ELSE U64Sub(s.value, p.start_time)

-----------------------------------------------------------------------------
(* Conversions and formatting *)

RECURSIVE BitLen(_)
BitLen(x) == IF x = 0 THEN 0 ELSE 1 + BitLen(x \div 2)

\* round to nearest, ties to even, keeping p significant bits
RoundToBits(x, p) ==
    LET len == BitLen(x) IN
    IF len <= p THEN x
    ELSE LET unit == 2^(len - p)
             q    == x \div unit
             r    == x % unit
             half == unit \div 2
             up   == r > half \/ (r = half /\ q % 2 = 1)
         IN  (IF up THEN q + 1 ELSE q) * unit

(* a plausible slip: the sample is narrowed to f32 *)
as_f32(x) == RoundToBits(x, 24)

as_f64(x) == RoundToBits(x, F64MantissaBits)

Part(n, u) == IF n > 0 THEN << [n |-> n, u |-> u] >> ELSE << >>

format_time(t) ==
    Part(t \div 86400, "d ")
    \o Part((t \div 3600) % 24, "h ")
    \o Part((t \div 60) % 60, "m ")
    \o << [n |-> t % 60, u |-> "s"] >>

\* format!("{:.1}%", cpu) on a half-percent magnitude
format_cpu(h) == << [n |-> h \div 2, u |-> "."], [n |-> (h % 2) * 5, u |-> "%"] >>

\* format_number(process.memory() << 10)
format_memory(m) == << [n |-> Shl10(m), u |-> "format_number"] >>

format_cwd(p) == << [n |-> 0, u |-> p] >>

-----------------------------------------------------------------------------
(* RotateVec (RingSeries) *)

RotateVec_new(d) == [data |-> d, start |-> 0]

move_start(rv) ==
    [rv EXCEPT !.start = IF rv.start > 0 THEN rv.start - 1 ELSE Len(rv.data) - 1]

get_real_pos(rv, index) ==
    IF rv.start + index >= Len(rv.data)
    THEN rv.start + index - Len(rv.data)
    ELSE rv.start + index

get(rv, index) == rv.data[get_real_pos(rv, index) + 1]

set(rv, index, v) == [rv EXCEPT !.data[get_real_pos(rv, index) + 1] = v]

-----------------------------------------------------------------------------
(* Graph (MetricHistory) *)

None == [some |-> FALSE, v |-> BigZero]

Some(v) == [some |-> TRUE, v |-> v]

NoGraph ==
    [data |-> << >>, max |-> None, keep_max |-> FALSE, display_labels |-> FALSE,
     labels_callback |-> "none", dirty |-> FALSE]

Graph_new(max, keep_max) ==
    [data |-> << >>, max |-> max, keep_max |-> keep_max, display_labels |-> TRUE,
     labels_callback |-> "none", dirty |-> FALSE]

set_display_labels(g, b) == [g EXCEPT !.display_labels = b]

push(g, rv) == [g EXCEPT !.data = Append(g.data, rv)]

set_label_callbacks(g, cb) == [g EXCEPT !.labels_callback = cb]

invalidate(g) == [g EXCEPT !.dirty = TRUE]

acknowledge(g) == [g EXCEPT !.dirty = FALSE]

-----------------------------------------------------------------------------
(* Label callbacks *)

BigLess(a, b) == a.hi < b.hi \/ (a.hi = b.hi /\ a.lo < b.lo)

BigLessEq(a, b) == a = b \/ BigLess(a, b)

KB_LIMIT == ToBig(1, 0)

MB_LIMIT == ToBig(100, 0)

GB_LIMIT == ToBig(100000, 0)

Text(s) == [fmt |-> s, num |-> BigZero, div |-> 1]

Fmt(f, v, d) == [fmt |-> f, num |-> v, div |-> d]

NoAxis == [top |-> Text(""), mid |-> Text(""), bottom |-> Text(""), unit |-> ""]

cpu_label_callback(v) ==
    [top |-> Text("100"), mid |-> Text("50"), bottom |-> Text("0"), unit |-> "%"]

(* a plausible slip: the boundaries are tested with <= *)
ram_label_callback_le(v) ==
    IF BigLessEq(v, KB_LIMIT)
    THEN [top |-> Fmt("{}", v, 1), mid |-> Fmt("{}", v, 2),
          bottom |-> Text("0"), unit |-> "kB"]
    ELSE IF BigLessEq(v, MB_LIMIT)
    THEN [top |-> Fmt("{:.1}", v, 1024), mid |-> Fmt("{:.1}", v, 2048),
          bottom |-> Text("0"), unit |-> "MB"]
    ELSE IF BigLessEq(v, GB_LIMIT)
    THEN [top |-> Fmt("{:.1}", v, 1048576), mid |-> Fmt("{:.1}", v, 2097152),
          bottom |-> Text("0"), unit |-> "GB"]
    ELSE [top |-> Fmt("{:.1}", v, 1073741824), mid |-> Fmt("{:.1}", v, 1073741824),
          bottom |-> Text("0"), unit |-> "TB"]

ram_label_callback(v) ==
    IF BigLess(v, KB_LIMIT)
    THEN [top |-> Fmt("{}", v, 1), mid |-> Fmt("{}", v, 2),
          bottom |-> Text("0"), unit |-> "kB"]
    ELSE IF BigLess(v, MB_LIMIT)
    THEN [top |-> Fmt("{:.1}", v, 1024), mid |-> Fmt("{:.1}", v, 2048),
          bottom |-> Text("0"), unit |-> "MB"]
    ELSE IF BigLess(v, GB_LIMIT)
    THEN [top |-> Fmt("{:.1}", v, 1048576), mid |-> Fmt("{:.1}", v, 2097152),
          bottom |-> Text("0"), unit |-> "GB"]
    ELSE [top |-> Fmt("{:.1}", v, 1073741824), mid |-> Fmt("{:.1}", v, 1073741824),
          bottom |-> Text("0"), unit |-> "TB"]

call_labels_callback(g, v) ==
    IF g.labels_callback = "ram" THEN ram_label_callback(v)
    ELSE IF g.labels_callback = "cpu" THEN cpu_label_callback(v)
    ELSE NoAxis

-----------------------------------------------------------------------------
(* The rotate-and-overwrite step of update, lines 39-41 and 43-45 *)

(* a plausible slip: the new sample lands in slot 1 *)
record_slot1(g, v) ==
    invalidate([g EXCEPT !.data[1] = set(move_start(g.data[1]), 1, v)])

(* a plausible slip: the graph is not invalidated *)
record_no_invalidate(g, v) ==
    [g EXCEPT !.data[1] = set(move_start(g.data[1]), 0, v)]

(* a plausible slip: slot 0 is overwritten without rotating *)
record_no_rotate(g, v) ==
    invalidate([g EXCEPT !.data[1] = set(g.data[1], 0, v)])

(* a plausible slip: the sample is inserted, the oldest is not dropped *)
record_insert(g, v) ==
    invalidate([g EXCEPT !.data[1] =
        [data |-> << v >> \o g.data[1].data, start |-> 0]])

(* a plausible slip: every tick attaches a new series *)
record_push(g, v) ==
    invalidate(push([g EXCEPT !.data[1] = set(move_start(g.data[1]), 0, v)],
                    RotateVec_new(<< v >>)))

record(g, v) ==
    invalidate([g EXCEPT !.data[1] = set(move_start(g.data[1]), 0, v)])

-----------------------------------------------------------------------------
(* Initial states: before create_process_dialog is called *)

InitWith(snapshots, times, memories) ==
    /\ overflow_checks \in BOOLEAN
    /\ pc = "start"
    /\ ticks = 0
    /\ \E s \in snapshots, t \in times :
          /\ process = [start_time |-> t[1], memory |-> s.memory,
                        cpu_usage |-> s.cpu_usage, cwd |-> s.cwd]
          /\ caller_start_time = t[2]
          /\ caller_running_since = t[3]
    /\ total_memory \in memories
    /\ popup = "none"
    /\ working_directory = << >>
    /\ memory_usage = << >>
    /\ cpu_usage = << >>
    /\ run_time = << >>
    /\ ram_usage_history = NoGraph
    /\ cpu_usage_history = NoGraph
    /\ axis = [ram |-> NoAxis, cpu |-> NoAxis]
    /\ crs = [called |-> FALSE, process_start_time |-> 0, start_time |-> 0,
              running_since |-> 0, panic |-> FALSE, value |-> 0]
    /\ upd = [n |-> 0, start_time |-> 0, running_since |-> 0, elapsed |-> 0,
              clean_before |-> FALSE]
    /\ recorded = [ram |-> << >>, cpu |-> << >>]

\* <<process_start_time, start_time, running_since>>
SessionTimes == { <<400, 1000, 0>>, <<1000, 400, 0>>, <<400, 400, 0>>, <<0, 0, 50>> }

Init == InitWith(Snapshots, SessionTimes, {DefaultTotalMemory})

InitTime ==
    InitWith({[memory |-> 1024, cpu_usage |-> 200, cwd |-> "/"]},
             TimeValues \X TimeValues \X TimeValues, {DefaultTotalMemory})

InitLabel == InitWith(Snapshots, { <<400, 1000, 0>>, <<1000, 400, 0>> }, LabelValues)

InitLong == InitWith(Snapshots, { <<400, 1000, 0>> }, {DefaultTotalMemory})

-----------------------------------------------------------------------------
(* Actions *)

Called(r) ==
    [called |-> TRUE, process_start_time |-> process.start_time,
     start_time |-> caller_start_time, running_since |-> caller_running_since,
     panic |-> r.panic, value |-> r.value]

Seed == [i \in 1..HistoryLen |-> 0]

CpuCeiling == ToBig(0, 200)

create_process_dialog ==
    /\ pc = "start"
    /\ LET r == compute_running_since(process, caller_start_time, caller_running_since)
       IN  /\ crs' = Called(r)
           /\ IF r.panic
              THEN /\ pc' = "aborted"
                   /\ UNCHANGED <<popup, working_directory, memory_usage, cpu_usage,
                                  run_time, ram_usage_history, cpu_usage_history>>
              ELSE /\ pc' = "open"
                   /\ memory_usage' = format_memory(process.memory)
                   /\ cpu_usage' = format_cpu(process.cpu_usage)
                   /\ run_time' = format_time(r.value)
                   /\ working_directory' = format_cwd(process.cwd)
                   /\ cpu_usage_history' =
                        invalidate(set_label_callbacks(
                            push(set_display_labels(Graph_new(Some(CpuCeiling), FALSE), FALSE),
                                 RotateVec_new(Seed)),
                            "cpu"))
                   /\ ram_usage_history' =
                        invalidate(set_label_callbacks(
                            push(set_display_labels(Graph_new(Some(total_memory), TRUE), FALSE),
                                 RotateVec_new(Seed)),
                            "ram"))
                   /\ popup' = "shown"
    /\ UNCHANGED <<overflow_checks, ticks, process, total_memory, caller_start_time,
                   caller_running_since, axis, upd, recorded>>

\* the timer of the session owner: a fresh snapshot, running_since advanced
Sample ==
    /\ pc = "open"
    /\ ticks < MaxTicks
    /\ \E s \in Snapshots, d \in Steps :
          /\ caller_running_since + d < Modulus
          /\ process' = [process EXCEPT !.memory = s.memory,
                                        !.cpu_usage = s.cpu_usage, !.cwd = s.cwd]
          /\ caller_running_since' = caller_running_since + d
    /\ ticks' = ticks + 1
    /\ pc' = "sampled"
    /\ UNCHANGED <<overflow_checks, total_memory, caller_start_time, popup,
                   working_directory, memory_usage, cpu_usage, run_time,
                   ram_usage_history, cpu_usage_history, axis, crs, upd, recorded>>

\* a long session: one second per tick, every sample distinct and non-zero
SampleSteady ==
    /\ pc = "open"
    /\ ticks < MaxLongTicks
    /\ process' = [process EXCEPT !.memory = ticks + 1, !.cpu_usage = 2 * ticks + 1]
    /\ caller_running_since' = caller_running_since + 1
    /\ ticks' = ticks + 1
    /\ pc' = "sampled"
    /\ UNCHANGED <<overflow_checks, total_memory, caller_start_time, popup,
                   working_directory, memory_usage, cpu_usage, run_time,
                   ram_usage_history, cpu_usage_history, axis, crs, upd, recorded>>

update ==
    /\ pc = "sampled"
    /\ working_directory' = format_cwd(process.cwd)
    /\ memory_usage' = format_memory(process.memory)
    /\ cpu_usage' = format_cpu(process.cpu_usage)
    /\ LET r == compute_running_since(process, caller_start_time, caller_running_since)
       IN  /\ crs' = Called(r)
           /\ IF r.panic
              THEN /\ pc' = "aborted"
                   /\ UNCHANGED <<run_time, ram_usage_history, cpu_usage_history,
                                  upd, recorded>>
              ELSE /\ pc' = "open"
                   /\ run_time' = format_time(r.value)
                   /\ ram_usage_history' =
                        record(ram_usage_history, as_f64(process.memory))
                   /\ cpu_usage_history' =
                        record(cpu_usage_history, as_f64(process.cpu_usage))
                   /\ upd' = [n |-> upd.n + 1, start_time |-> caller_start_time,
                              running_since |-> caller_running_since,
                              elapsed |-> r.value,
                              clean_before |-> ~ram_usage_history.dirty
                                               /\ ~cpu_usage_history.dirty]
                   /\ recorded' =
                        [ram |-> Append(recorded.ram, as_f64(process.memory)),
                         cpu |-> Append(recorded.cpu, as_f64(process.cpu_usage))]
    /\ UNCHANGED <<overflow_checks, ticks, process, total_memory, caller_start_time,
                   caller_running_since, popup, axis>>

\* the renderer, between ticks: draws the axis texts, acknowledges the redraw
RedrawRam ==
    /\ pc = "open"
    /\ ram_usage_history.dirty
    /\ axis' = [axis EXCEPT !.ram =
                  call_labels_callback(ram_usage_history, ram_usage_history.max.v)]
    /\ ram_usage_history' = acknowledge(ram_usage_history)
    /\ UNCHANGED <<overflow_checks, pc, ticks, process, total_memory,
                   caller_start_time, caller_running_since, popup, working_directory,
                   memory_usage, cpu_usage, run_time, cpu_usage_history, crs, upd,
                   recorded>>

RedrawCpu ==
    /\ pc = "open"
    /\ cpu_usage_history.dirty
    /\ axis' = [axis EXCEPT !.cpu =
                  call_labels_callback(cpu_usage_history, cpu_usage_history.max.v)]
    /\ cpu_usage_history' = acknowledge(cpu_usage_history)
    /\ UNCHANGED <<overflow_checks, pc, ticks, process, total_memory,
                   caller_start_time, caller_running_since, popup, working_directory,
                   memory_usage, cpu_usage, run_time, ram_usage_history, crs, upd,
                   recorded>>

Next == create_process_dialog \/ Sample \/ update \/ RedrawRam \/ RedrawCpu

NextLong == create_process_dialog \/ SampleSteady \/ update \/ RedrawRam \/ RedrawCpu

Spec == Init /\ [][Next]_vars

SpecTime == InitTime /\ [][Next]_vars

SpecLabel == InitLabel /\ [][Next]_vars

SpecLong == InitLong /\ [][NextLong]_vars

-----------------------------------------------------------------------------
(* Properties *)

Ram0 == ram_usage_history.data[1]

Cpu0 == cpu_usage_history.data[1]

UpdateStep == pc = "sampled" /\ pc' # "sampled"

UpdateCompleted == pc = "sampled" /\ pc' = "open"

\* C1: whenever start_time + running_since is below the process start time,
\* compute_running_since neither fails nor wraps and returns the absolute
\* difference of the two.
C1_AbsoluteDifference ==
    (crs.called /\ crs.start_time + crs.running_since < crs.process_start_time)
        => (~crs.panic
            /\ crs.value = crs.process_start_time
                             - (crs.start_time + crs.running_since))

C3_ExactDifference ==
    (crs.called /\ crs.start_time + crs.running_since >= crs.process_start_time
                /\ crs.start_time + crs.running_since < Modulus)
        => (~crs.panic
            /\ crs.value = crs.start_time + crs.running_since
                             - crs.process_start_time)

C3_Witness ==
    /\ crs.called /\ crs.start_time = 1000 /\ crs.process_start_time = 400
    /\ crs.running_since = 0
    /\ ~crs.panic /\ crs.value = 600

\* C4: from one completed update to the next of a session (same process start
\* time, same start_time, running_since not decreased) the elapsed time that
\* update computes does not decrease.
C4_Monotonic ==
    [][(upd.n >= 1 /\ upd'.n = upd.n + 1
            /\ upd'.start_time = upd.start_time
            /\ upd'.running_since >= upd.running_since)
          => upd'.elapsed >= upd.elapsed]_vars

\* C5: after every completed update the newest slot (index 0) of series 0 of
\* the memory history is the snapshot's memory and that of the CPU history is
\* the snapshot's CPU percent.
C5_NewestSlot ==
    (pc = "open" /\ upd.n >= 1)
        => (get(Ram0, 0) = process.memory /\ get(Cpu0, 0) = process.cpu_usage)

C5_Witness ==
    /\ pc = "open" /\ upd.n = 1
    /\ process.cpu_usage = 75 /\ get(Cpu0, 0) = 75 /\ get(Cpu0, 1) = 0
    /\ process.memory = 16777217 /\ get(Ram0, 0) = 16777217

\* C6: every completed update leaves both histories dirty, whatever value it
\* wrote; no step of update clears a dirty flag, and a dirty flag is cleared
\* only by the renderer's acknowledgement.
C6_DirtyUntilAcknowledged ==
    [][/\ UpdateCompleted => (ram_usage_history'.dirty /\ cpu_usage_history'.dirty)
       /\ UpdateStep => /\ ram_usage_history.dirty => ram_usage_history'.dirty
                        /\ cpu_usage_history.dirty => cpu_usage_history'.dirty
       /\ (ram_usage_history.dirty /\ ~ram_usage_history'.dirty) => RedrawRam
       /\ (cpu_usage_history.dirty /\ ~cpu_usage_history'.dirty) => RedrawCpu]_vars

C6_Witness ==
    /\ pc = "open" /\ upd.n >= 1 /\ upd.clean_before
    /\ get(Ram0, 0) = get(Ram0, 1) /\ get(Cpu0, 0) = get(Cpu0, 1)
    /\ ram_usage_history.dirty /\ cpu_usage_history.dirty

\* C7: after k updates that wrote v1..vk, slot i of each series holds v(k-i)
\* for i < min(k, 61) and every other slot still holds the seed 0; so once 61
\* non-zero samples are written no seed is left.
C7_Layout ==
    popup = "shown" =>
        /\ \A i \in 0..(HistoryLen - 1) :
              /\ get(Ram0, i) = IF i < Len(recorded.ram)
                                THEN recorded.ram[Len(recorded.ram) - i] ELSE 0
              /\ get(Cpu0, i) = IF i < Len(recorded.cpu)
                                THEN recorded.cpu[Len(recorded.cpu) - i] ELSE 0
        /\ (Len(recorded.ram) >= HistoryLen
              /\ \A j \in 1..Len(recorded.ram) : recorded.ram[j] # 0)
           => \A i \in 0..(HistoryLen - 1) : get(Ram0, i) # 0

C7_Witness ==
    /\ popup = "shown"
    /\ Len(recorded.ram) = HistoryLen
    /\ \A i \in 0..(HistoryLen - 1) : get(Ram0, i) = HistoryLen - i
    /\ \A i \in 0..(HistoryLen - 1) : get(Cpu0, i) # 0

\* C8: once the dialog is built each history holds exactly one series and
\* that series has exactly 61 entries.
C8_OneSeriesOf61 ==
    popup = "shown" =>
        /\ Len(ram_usage_history.data) = 1 /\ Len(Ram0.data) = 61
        /\ Len(cpu_usage_history.data) = 1 /\ Len(Cpu0.data) = 61

C8_Witness ==
    /\ popup = "shown" /\ upd.n >= 2
    /\ Len(ram_usage_history.data) = 1 /\ Len(Ram0.data) = 61
    /\ Len(cpu_usage_history.data) = 1 /\ Len(Cpu0.data) = 61

\* C9: the memory label callback picks kB below 100_000, MB from 100_000 to
\* below 10_000_000, GB from 10_000_000 to below 10_000_000_000 and TB from
\* there on: exactly one tier, each boundary in the higher one.
C9_UnitTiers ==
    axis.ram.unit # "" =>
        LET v == ram_usage_history.max.v
            u == axis.ram.unit
        IN  /\ u \in {"kB", "MB", "GB", "TB"}
            /\ u = "kB" <=> v.hi < 1
            /\ u = "MB" <=> (v.hi >= 1 /\ v.hi < 100)
            /\ u = "GB" <=> (v.hi >= 100 /\ v.hi < 100000)
            /\ u = "TB" <=> v.hi >= 100000

C9_Witness ==
    /\ ram_usage_history.max.v = ToBig(100000, 0)
    /\ axis.ram.unit = "TB"

GraphFrame(g, h) ==
    /\ Len(h.data) = Len(g.data)
    /\ h.max = g.max
    /\ h.keep_max = g.keep_max
    /\ h.display_labels = g.display_labels
    /\ h.labels_callback = g.labels_callback

UpdateFrame ==
    /\ GraphFrame(ram_usage_history, ram_usage_history')
    /\ GraphFrame(cpu_usage_history, cpu_usage_history')
    /\ caller_start_time' = caller_start_time
    /\ caller_running_since' = caller_running_since
    /\ process' = process
    /\ popup' = popup

\* C10 (as stated): an update changes nothing but the samples of series 0 of
\* the two histories and their dirty flags.
C10_NothingElseChanges ==
    [][UpdateStep =>
          /\ UpdateFrame
          /\ UNCHANGED <<working_directory, memory_usage, cpu_usage, run_time>>]_vars

\* C10 (amended): besides the samples of series 0 and the dirty flags an update
\* overwrites the four label texts from the current snapshot and arguments;
\* the series count, ceiling, labels flag and label callback of each history
\* and the caller's start_time and running_since are unchanged, and what the
\* update leaves behind depends on this tick's inputs alone.
C10_FrameAndLabels ==
    [][UpdateStep =>
          /\ UpdateFrame
          /\ working_directory' = format_cwd(process.cwd)
          /\ memory_usage' = format_memory(process.memory)
          /\ cpu_usage' = format_cpu(process.cpu_usage)
          /\ UpdateCompleted =>
                run_time' = format_time(crs'.value)]_vars

C10_Witness ==
    /\ pc = "open" /\ upd.n >= 2
    /\ working_directory = format_cwd("/tmp")
    /\ run_time = format_time(upd.elapsed)
    /\ Len(ram_usage_history.data) = 1
    /\ ram_usage_history.max = Some(total_memory)
    /\ caller_running_since = upd.running_since

====
